---- MODULE Spec2Model ----
(***************************************************************************)
(* Region layout of zkevm-worst-case.py: the region catalog (get_regions), *)
(* the two layout strategies (solve_v1, solve_v3), the validator           *)
(* (check_valid, Region.overlap) and the usage metrics (get_advice,        *)
(* cell_usage, the "Area usage" division of main).                         *)
(*                                                                         *)
(* Python lists are 0-based, sequences here are 1-based: the loop index i  *)
(* of the model is the number of iterations already done, and the region   *)
(* of the next iteration is regions[i + 1].                                *)
(***************************************************************************)
EXTENDS Integers, Sequences, FiniteSets, TLC

\* Bounds of the explored inputs.
MaxK == 3
MaxLen == 3
MaxW == 2
MaxH == 3
MaxGas == 7
VMaxK == 1
VMaxLen == 2
VMaxCoord == 1
VMaxDim == 2

VARIABLES pc, k, gas, ct, regions, regions_v1, regions_v3, i, position,
          width, valid, printed, usage_v1, usage_v3

vars == <<pc, k, gas, ct, regions, regions_v1, regions_v3, i, position,
          width, valid, printed, usage_v1, usage_v3>>

Max(a, b) == IF a > b THEN a ELSE b
Min(a, b) == IF a < b THEN a ELSE b

\* Python's None, for a value that is otherwise a string.
None == "None"

(***************************************************************************)
(* Configuration tables.                                                   *)
(***************************************************************************)
circuits_tables ==
    << [circuit |-> "evm",      table |-> None],
       [circuit |-> "bytecode", table |-> "bytecode"],
       [circuit |-> "copy",     table |-> "copy"],
       [circuit |-> "exp",      table |-> "exp"],
       [circuit |-> "keccak",   table |-> "keccak"],
       [circuit |-> "mpt",      table |-> "mpt"],
       [circuit |-> "rw",       table |-> "rw"],
       [circuit |-> "tx",       table |-> "tx"],
       [circuit |-> "sig",      table |-> "sig"],
       [circuit |-> "ecc",      table |-> None],
       [circuit |-> "pi",       table |-> None],
       [circuit |-> None,       table |-> "block"],
       [circuit |-> None,       table |-> "u8"],
       [circuit |-> None,       table |-> "u10"],
       [circuit |-> None,       table |-> "u16"] >>

\* A rows-per-gas entry: None, or a decimal number kept in hundredths
\* (4.5 is 450, 9.47 is 947, 0 is 0).
NoRatio == [none |-> TRUE, x100 |-> 0]
Ratio(h) == [none |-> FALSE, x100 |-> h]

rows_per_gas ==
    [name \in {"evm", "bytecode", "copy", "exp", "keccak", "mpt", "rw", "tx",
               "ecc", "pi", "block", "sig", "u8", "u10", "u16"} |->
        CASE name = "evm"      -> Ratio(450)
          [] name = "bytecode" -> Ratio(947)
          [] name = "copy"     -> Ratio(2130)
          [] name = "exp"      -> Ratio(109)
          [] name = "keccak"   -> Ratio(9050)
          [] name = "mpt"      -> Ratio(95)
          [] name = "rw"       -> Ratio(1133)
          [] name = "tx"       -> Ratio(873)
          [] name = "ecc"      -> NoRatio
          [] name = "pi"       -> Ratio(33)
          [] name = "block"    -> Ratio(0)
          [] name = "sig"      -> NoRatio
          [] name = "u8"       -> Ratio(0)
          [] name = "u10"      -> Ratio(0)
          [] name = "u16"      -> Ratio(0)]

min_rows ==
    [name \in {"tx", "block", "u8", "u10", "u16"} |->
        CASE name = "tx"    -> 295188
          [] name = "block" -> 264
          [] name = "u8"    -> 2^8
          [] name = "u10"   -> 2^10
          [] name = "u16"   -> 2^16]

adv_cols ==
    [name \in {"tx_table", "wd_table", "rw_table", "mpt_table",
               "bytecode_table", "block_table", "copy_table", "exp_table",
               "keccak_table", "sig_table", "u8_table", "u10_table",
               "u16_table", "keccak", "pi", "tx", "bytecode", "copy", "rw",
               "exp", "evm", "mpt", "ecc", "sig"} |->
        CASE name = "tx_table"       -> 4
          [] name = "wd_table"       -> 5
          [] name = "rw_table"       -> 14
          [] name = "mpt_table"      -> 12
          [] name = "bytecode_table" -> 6
          [] name = "block_table"    -> 2
          [] name = "copy_table"     -> 12
          [] name = "exp_table"      -> 5
          [] name = "keccak_table"   -> 5
          [] name = "sig_table"      -> 9
          [] name = "u8_table"       -> 0
          [] name = "u10_table"      -> 0
          [] name = "u16_table"      -> 0
          [] name = "keccak"         -> 198
          [] name = "pi"             -> 10
          [] name = "tx"             -> 6
          [] name = "bytecode"       -> 6
          [] name = "copy"           -> 14
          [] name = "rw"             -> 49
          [] name = "exp"            -> 10
          [] name = "evm"            -> 131
          [] name = "mpt"            -> 144
          [] name = "ecc"            -> 0
          [] name = "sig"            -> 0]

\* f"{table}_table"
table_key(table) ==
    CASE table = "bytecode" -> "bytecode_table"
      [] table = "copy"     -> "copy_table"
      [] table = "exp"      -> "exp_table"
      [] table = "keccak"   -> "keccak_table"
      [] table = "mpt"      -> "mpt_table"
      [] table = "rw"       -> "rw_table"
      [] table = "tx"       -> "tx_table"
      [] table = "sig"      -> "sig_table"
      [] table = "block"    -> "block_table"
      [] table = "u8"       -> "u8_table"
      [] table = "u10"      -> "u10_table"
      [] table = "u16"      -> "u16_table"

(***************************************************************************)
(* Region and Point.                                                       *)
(***************************************************************************)
Region(name, w, h) == [name |-> name, width |-> w, height |-> h, x |-> -1, y |-> -1]

Point(x, y) == [x |-> x, y |-> y]

\* Region.overlap: self's box contains other's top-left corner.
overlap(self, other) ==
    (self.x <= other.x /\ self.x + self.width > other.x) /\
    (self.y <= other.y /\ self.y + self.height > other.y)

(***************************************************************************)
(* check_valid: the height loop returns at the first region over 2^k, the  *)
(* pair loop at the first pair (i < j) that overlap() flags.  Its prints   *)
(* are the records of .printed; j is 0 in a height finding.                *)
(***************************************************************************)
over_height(n, rs) == {a \in DOMAIN rs : rs[a].y + rs[a].height > n}

overlapping_pairs(rs) ==
    {p \in (DOMAIN rs) \X (DOMAIN rs) : p[1] < p[2] /\ overlap(rs[p[1]], rs[p[2]])}

\* The smallest element of a non-empty set of indices.
first_index(S) == CHOOSE a \in S : \A b \in S : a <= b

\* The first pair in the iteration order of the nested loops.
first_pair(P) ==
    CHOOSE p \in P : \A q \in P : p[1] < q[1] \/ (p[1] = q[1] /\ p[2] <= q[2])

height_finding(a) == [kind |-> "over 2^k height", i |-> a, j |-> 0]

overlap_finding(p) == [kind |-> "Overlapping regions", i |-> p[1], j |-> p[2]]

\* A validator that goes on after a finding and reports them all.
RECURSIVE findings_of(_)
findings_of(S) ==
    IF S = {} THEN <<>>
    ELSE LET a == CHOOSE e \in S : TRUE IN <<a>> \o findings_of(S \ {a})

check_valid_collect_all(kk, rs) ==
    LET H == over_height(2^kk, rs)
        P == overlapping_pairs(rs)
    IN [valid |-> (H = {} /\ P = {}),
        printed |-> findings_of({height_finding(a) : a \in H})
                    \o findings_of({overlap_finding(p) : p \in P})]

check_valid(kk, rs) ==
    LET n == 2^kk
        H == over_height(n, rs)
        P == overlapping_pairs(rs)
    IN IF H # {}
       THEN [valid |-> FALSE, printed |-> <<height_finding(first_index(H))>>]
       ELSE IF P # {}
            THEN [valid |-> FALSE, printed |-> <<overlap_finding(first_pair(P))>>]
            ELSE [valid |-> TRUE, printed |-> <<>>]

\* What a solver prints: check_valid's finding, then "Invalid solution".
invalid_solution == [kind |-> "Invalid solution", i |-> 0, j |-> 0]

solver_prints(cv) ==
    IF cv.valid THEN cv.printed ELSE cv.printed \o <<invalid_solution>>

(***************************************************************************)
(* solve_v1: every region at y = 0, x the sum of the widths before it.     *)
(***************************************************************************)
v1_width_overwrite(w, region) == region.width

\* width += region.width
v1_next_width(w, region) == w + region.width

RECURSIVE solve_v1_loop(_, _, _)
solve_v1_loop(rs, done, w) ==
    IF done >= Len(rs) THEN rs
    ELSE LET region == rs[done + 1]
         IN solve_v1_loop([rs EXCEPT ![done + 1].y = 0, ![done + 1].x = w],
                          done + 1, v1_next_width(w, region))

solve_v1_regions(rs) == solve_v1_loop(rs, 0, 0)

(***************************************************************************)
(* sorted(regions, key=lambda r: -r.height): Python's sort is stable, so   *)
(* an element goes after every element whose key is <= its own.            *)
(***************************************************************************)
sort_key(r) == 0 - r.height

RECURSIVE insert_before_ties(_, _)
insert_before_ties(s, r) ==
    IF s = <<>> THEN <<r>>
    ELSE IF sort_key(s[1]) < sort_key(r) THEN <<s[1]>> \o insert_before_ties(Tail(s), r)
         ELSE <<r>> \o s

RECURSIVE sorted_insert(_, _)
sorted_insert(s, r) ==
    IF s = <<>> THEN <<r>>
    ELSE IF sort_key(s[1]) <= sort_key(r) THEN <<s[1]>> \o sorted_insert(Tail(s), r)
         ELSE <<r>> \o s

RECURSIVE sorted_prefix(_, _)
sorted_prefix(rs, m) ==
    IF m = 0 THEN <<>> ELSE sorted_insert(sorted_prefix(rs, m - 1), rs[m])

sorted(rs) == sorted_prefix(rs, Len(rs))

(***************************************************************************)
(* solve_v3: the tests and updates of one loop iteration.                  *)
(***************************************************************************)
fits_le(pos, region, n) == pos.y + region.height <= n

fits_cursor_only(pos, region, n) == pos.y < n

\* if position.y + region.height < n
fits(pos, region, n) == pos.y + region.height < n

shelf_width_last(w, region) == region.width

\* if width < region.width: width = region.width
shelf_width(w, region) == IF w < region.width THEN region.width ELSE w

new_shelf_x_by_region(pos, w, region) == pos.x + region.width

\* position.x += width
new_shelf_x(pos, w, region) == pos.x + w

(***************************************************************************)
(* get_advice, cell_usage and the division main prints.                    *)
(***************************************************************************)
RECURSIVE get_advice_loop(_, _, _)
get_advice_loop(rs, done, advice) ==
    IF done >= Len(rs) THEN advice
    ELSE LET max_col == rs[done + 1].x + rs[done + 1].width
         IN get_advice_loop(rs, done + 1, IF max_col > advice THEN max_col ELSE advice)

get_advice(rs) == get_advice_loop(rs, 0, 0)

RECURSIVE used_cells_loop(_, _, _)
used_cells_loop(rs, done, used) ==
    IF done >= Len(rs) THEN used
    ELSE used_cells_loop(rs, done + 1, used + rs[done + 1].width * rs[done + 1].height)

cell_usage(kk, rs) ==
    [area |-> get_advice(rs) * 2^kk, used_cells |-> used_cells_loop(rs, 0, 0)]

\* used_cells / area * 100: the quotient is kept as the fraction num/den; a
\* zero area raises ZeroDivisionError.
no_usage == [exc |-> "not computed", advice |-> 0, area |-> 0, used_cells |-> 0, num |-> 0, den |-> 0]

area_usage(kk, rs) ==
    LET cu == cell_usage(kk, rs)
    IN [exc |-> IF cu.area = 0 THEN "ZeroDivisionError" ELSE "none",
        advice |-> get_advice(rs), area |-> cu.area, used_cells |-> cu.used_cells,
        num |-> cu.used_cells * 100, den |-> cu.area]

(***************************************************************************)
(* get_regions: one iteration of the loop over circuits_tables.            *)
(***************************************************************************)
\* A name or a table is truthy unless it is None.
truthy(v) == v # None

\* `not rows_gas`: true of None and of the number 0.
not_rows_gas(rows_gas) == rows_gas.none \/ rows_gas.x100 = 0

\* int(gas * rows_gas), gas and rows_gas >= 0: the product of gas and the
\* ratio in hundredths, truncated (equal to the float result for the gas
\* values explored).
int_rows(g, rows_gas) == (g * rows_gas.x100) \div 100

\* rows = max(rows, min_rows[name]); a KeyError leaves rows as it is.
floor_rows(rows, name) ==
    IF name \in DOMAIN min_rows THEN Max(rows, min_rows[name]) ELSE rows

pair_width(pair) ==
    (IF truthy(pair.circuit) THEN adv_cols[pair.circuit] ELSE 0) +
    (IF truthy(pair.table) THEN adv_cols[table_key(pair.table)] ELSE 0)

pair_name(pair) == IF truthy(pair.circuit) THEN pair.circuit ELSE pair.table

get_regions_pair(g, rs, pair) ==
    LET name == pair_name(pair)
        rows_gas == rows_per_gas[name]
    IN IF not_rows_gas(rows_gas) THEN rs
       ELSE Append(rs, Region(pair.circuit, pair_width(pair),
                              floor_rows(int_rows(g, rows_gas), name)))

(***************************************************************************)
(* The catalog: get_regions(gas), one loop iteration per step.             *)
(***************************************************************************)
InitCatalog ==
    /\ pc = "get_regions"
    /\ gas \in 0..MaxGas
    /\ ct = 0
    /\ regions = <<>>
    /\ k = 0
    /\ regions_v1 = <<>>
    /\ regions_v3 = <<>>
    /\ i = 0
    /\ position = Point(0, 0)
    /\ width = 0
    /\ valid = TRUE
    /\ printed = <<>>
    /\ usage_v1 = no_usage
    /\ usage_v3 = no_usage

get_regions_iter ==
    /\ pc = "get_regions"
    /\ ct < Len(circuits_tables)
    /\ regions' = get_regions_pair(gas, regions, circuits_tables[ct + 1])
    /\ ct' = ct + 1
    /\ UNCHANGED <<pc, k, gas, regions_v1, regions_v3, i, position, width,
                   valid, printed, usage_v1, usage_v3>>

get_regions_return ==
    /\ pc = "get_regions"
    /\ ct = Len(circuits_tables)
    /\ pc' = "got_regions"
    /\ UNCHANGED <<k, gas, ct, regions, regions_v1, regions_v3, i, position,
                   width, valid, printed, usage_v1, usage_v3>>

NextCatalog == get_regions_iter \/ get_regions_return

SpecCatalog == InitCatalog /\ [][NextCatalog]_vars

(***************************************************************************)
(* The validator on any placed region set: check_valid(k, regions).        *)
(***************************************************************************)
PlacedDims == (0..VMaxCoord) \X (0..VMaxCoord) \X (1..VMaxDim) \X (1..VMaxDim)

PlacedSeqs == UNION {[1..l -> PlacedDims] : l \in 0..VMaxLen}

placed_regions(d) ==
    [a \in 1..Len(d) |->
        [name |-> a, width |-> d[a][3], height |-> d[a][4], x |-> d[a][1], y |-> d[a][2]]]

InitValid ==
    /\ pc = "check_valid"
    /\ k = VMaxK
    /\ \E d \in PlacedSeqs : regions = placed_regions(d)
    /\ gas = 0
    /\ ct = 0
    /\ regions_v1 = <<>>
    /\ regions_v3 = <<>>
    /\ i = 0
    /\ position = Point(0, 0)
    /\ width = 0
    /\ valid = TRUE
    /\ printed = <<>>
    /\ usage_v1 = no_usage
    /\ usage_v3 = no_usage

check_valid_call ==
    /\ pc = "check_valid"
    /\ valid' = check_valid(k, regions).valid
    /\ printed' = check_valid(k, regions).printed
    /\ pc' = "checked"
    /\ UNCHANGED <<k, gas, ct, regions, regions_v1, regions_v3, i, position,
                   width, usage_v1, usage_v3>>

NextValid == check_valid_call

SpecValid == InitValid /\ [][NextValid]_vars

(***************************************************************************)
(* main on any k and any sequence of regions of positive size: solve_v1 on *)
(* a copy, its usage, solve_v3 on a copy (one loop iteration per step),    *)
(* its usage.  A region's name is its index in the input sequence.         *)
(***************************************************************************)
RegionDims == UNION {[1..l -> (1..MaxW) \X (1..MaxH)] : l \in 0..MaxLen}

unplaced_regions(d) == [a \in 1..Len(d) |-> Region(a, d[a][1], d[a][2])]

Init ==
    /\ pc = "main"
    /\ k \in 0..MaxK
    /\ \E d \in RegionDims : regions = unplaced_regions(d)
    /\ gas = 0
    /\ ct = 0
    /\ regions_v1 = <<>>
    /\ regions_v3 = <<>>
    /\ i = 0
    /\ position = Point(0, 0)
    /\ width = 0
    /\ valid = TRUE
    /\ printed = <<>>
    /\ usage_v1 = no_usage
    /\ usage_v3 = no_usage

solve_v1 ==
    /\ pc = "main"
    /\ LET placed == solve_v1_regions(regions)
           cv == check_valid(k, placed)
       IN /\ regions_v1' = placed
          /\ valid' = cv.valid
          /\ printed' = printed \o solver_prints(cv)
    /\ pc' = "usage_v1"
    /\ UNCHANGED <<k, gas, ct, regions, regions_v3, i, position, width,
                   usage_v1, usage_v3>>

main_usage_v1 ==
    /\ pc = "usage_v1"
    /\ usage_v1' = area_usage(k, regions_v1)
    /\ pc' = IF usage_v1'.exc = "none" THEN "solve_v3" ELSE "raised"
    /\ UNCHANGED <<k, gas, ct, regions, regions_v1, regions_v3, i, position,
                   width, valid, printed, usage_v3>>

solve_v3_sort ==
    /\ pc = "solve_v3"
    /\ regions_v3' = sorted(regions)
    /\ position' = Point(0, 0)
    /\ width' = 0
    /\ i' = 0
    /\ pc' = "solve_v3_loop"
    /\ UNCHANGED <<k, gas, ct, regions, regions_v1, valid, printed, usage_v1,
                   usage_v3>>

solve_v3_iter ==
    /\ pc = "solve_v3_loop"
    /\ i < Len(regions_v3)
    /\ LET n == 2^k
           region == regions_v3[i + 1]
       IN IF fits(position, region, n)
          THEN /\ regions_v3' = [regions_v3 EXCEPT ![i + 1].y = position.y,
                                                   ![i + 1].x = position.x]
               /\ position' = [position EXCEPT !.y = position.y + region.height]
               /\ width' = shelf_width(width, region)
          ELSE /\ position' = Point(new_shelf_x(position, width, region), region.height)
               /\ regions_v3' = [regions_v3 EXCEPT ![i + 1].y = 0,
                                                   ![i + 1].x = position'.x]
               /\ width' = region.width
    /\ i' = i + 1
    /\ UNCHANGED <<pc, k, gas, ct, regions, regions_v1, valid, printed,
                   usage_v1, usage_v3>>

solve_v3_return ==
    /\ pc = "solve_v3_loop"
    /\ i = Len(regions_v3)
    /\ LET cv == check_valid(k, regions_v3)
       IN /\ valid' = cv.valid
          /\ printed' = printed \o solver_prints(cv)
    /\ pc' = "usage_v3"
    /\ UNCHANGED <<k, gas, ct, regions, regions_v1, regions_v3, i, position,
                   width, usage_v1, usage_v3>>

main_usage_v3 ==
    /\ pc = "usage_v3"
    /\ usage_v3' = area_usage(k, regions_v3)
    /\ pc' = IF usage_v3'.exc = "none" THEN "done" ELSE "raised"
    /\ UNCHANGED <<k, gas, ct, regions, regions_v1, regions_v3, i, position,
                   width, valid, printed, usage_v1>>

Next ==
    \/ solve_v1
    \/ main_usage_v1
    \/ solve_v3_sort
    \/ solve_v3_iter
    \/ solve_v3_return
    \/ main_usage_v3

Spec == Init /\ [][Next]_vars

(***************************************************************************)
(* Properties.                                                             *)
(***************************************************************************)
\* The half-open boxes [x, x+width) x [y, y+height) of a and b intersect.
Intersects(a, b) ==
    /\ Max(a.x, b.x) < Min(a.x + a.width, b.x + b.width)
    /\ Max(a.y, b.y) < Min(a.y + a.height, b.y + b.height)

NoIntersections(rs, m) ==
    \A a, b \in 1..m : a # b => ~Intersects(rs[a], rs[b])

\* solve_v1 has returned.
V1Placed == pc \in {"usage_v1", "solve_v3", "solve_v3_loop", "usage_v3", "done", "raised"}

\* solve_v3 has sorted; regions_v3[1..i] are placed.
V3Sorted == pc \in {"solve_v3_loop", "usage_v3", "done"}

\* solve_v3 has returned.
V3Placed == pc \in {"usage_v3", "done"}

RECURSIVE SumHeights(_, _)
SumHeights(rs, S) ==
    IF S = {} THEN 0
    ELSE LET a == CHOOSE e \in S : TRUE IN rs[a].height + SumHeights(rs, S \ {a})

RECURSIVE MaxWidth(_, _)
MaxWidth(rs, S) ==
    IF S = {} THEN 0
    ELSE LET a == CHOOSE e \in S : TRUE IN Max(rs[a].width, MaxWidth(rs, S \ {a}))

\* C1: in the placement of solve_v1 and in every placed prefix of solve_v3,
\* no two distinct regions have intersecting half-open boxes, whatever k and
\* the (positive) sizes of the regions.
C1_NoOverlap ==
    /\ V1Placed => NoIntersections(regions_v1, Len(regions_v1))
    /\ V3Sorted => NoIntersections(regions_v3, i)

C1_Witness ==
    /\ pc = "done"
    /\ Len(regions_v3) = 3
    /\ \E a, b \in 1..3 : regions_v3[a].y > 0 /\ regions_v3[b].x > 0

InTable(r) == r.x >= 0 /\ r.y >= 0 /\ r.y + r.height <= 2^k

\* C2: every region whose height is <= 2^k is placed by solve_v1 and by
\* solve_v3 with x >= 0, y >= 0 and y + height <= 2^k.
C2_HeightBound ==
    /\ V1Placed =>
         \A a \in 1..Len(regions_v1) :
            regions_v1[a].height <= 2^k => InTable(regions_v1[a])
    /\ V3Sorted =>
         \A a \in 1..i : regions_v3[a].height <= 2^k => InTable(regions_v3[a])

C2_Witness ==
    /\ pc = "done"
    /\ \E a, b \in 1..Len(regions_v3) :
          /\ regions_v3[a].height > 2^k
          /\ regions_v3[b].height <= 2^k
          /\ regions_v3[b].x > 0

AllFit == \A a \in 1..Len(regions) : regions[a].height <= 2^k

\* C3: when every height is <= 2^k, the occupied width (get_advice) of the
\* solve_v3 placement is <= that of the solve_v1 placement of the same regions.
C3_WidthMonotone ==
    (V3Placed /\ AllFit) => get_advice(regions_v3) <= get_advice(regions_v1)

C3_Witness ==
    /\ pc = "done"
    /\ AllFit
    /\ get_advice(regions_v3) < get_advice(regions_v1)

\* The shelf that is current when regions_v3[a] is placed: the regions before
\* it that share the x of its predecessor.
ShelfBefore(a) == {b \in 1..(a - 1) : regions_v3[b].x = regions_v3[a - 1].x}

ShelfXBefore(a) == IF a = 1 THEN 0 ELSE regions_v3[a - 1].x

ExampleRegions == <<Region(1, 2, 3), Region(2, 2, 3), Region(3, 1, 2)>>

\* C6: a region is stacked on the current shelf only when the shelf's fill
\* plus its height is strictly below 2^k; otherwise (also when it would fill
\* the shelf exactly) it goes to y = 0 at x = the shelf's x + the shelf's
\* width.  With 2^k = 8 and A(2,3), B(2,3), C(1,2): A=(0,0), B=(0,3), C=(2,0).
C6_StrictFit ==
    /\ V3Sorted =>
         \A a \in 1..i :
            LET r == regions_v3[a]
                fill == SumHeights(regions_v3, ShelfBefore(a))
            IN IF fill + r.height < 2^k
               THEN r.x = ShelfXBefore(a) /\ r.y = fill
               ELSE r.y = 0 /\
                    r.x = ShelfXBefore(a) + MaxWidth(regions_v3, ShelfBefore(a))
    /\ (V3Placed /\ k = 3 /\ regions = ExampleRegions) =>
         /\ regions_v3[1].name = 1 /\ regions_v3[1].x = 0 /\ regions_v3[1].y = 0
         /\ regions_v3[2].name = 2 /\ regions_v3[2].x = 0 /\ regions_v3[2].y = 3
         /\ regions_v3[3].name = 3 /\ regions_v3[3].x = 2 /\ regions_v3[3].y = 0

C6_Witness ==
    /\ pc = "done"
    /\ k = 3
    /\ regions = ExampleRegions
    /\ regions_v3[2].y + regions_v3[2].height + regions_v3[3].height = 2^k
    /\ regions_v3[3].x = 2
    /\ regions_v3[3].y = 0

\* C7: solve_v3 works on the regions in non-increasing height order, regions
\* of equal height keep the relative order of the input, and the sequence is
\* a permutation of the input with names, widths and heights unchanged.
C7_StableSort ==
    V3Sorted =>
      /\ Len(regions_v3) = Len(regions)
      /\ \A a, b \in 1..Len(regions_v3) :
            a < b =>
              /\ regions_v3[a].height >= regions_v3[b].height
              /\ regions_v3[a].height = regions_v3[b].height
                    => regions_v3[a].name < regions_v3[b].name
      /\ \A j \in 1..Len(regions) :
            \E a \in 1..Len(regions_v3) :
               /\ regions_v3[a].name = regions[j].name
               /\ regions_v3[a].width = regions[j].width
               /\ regions_v3[a].height = regions[j].height

C7_Witness ==
    /\ pc = "done"
    /\ \E a \in 1..Len(regions_v3) : regions_v3[a].name # a
    /\ \E a, b \in 1..Len(regions_v3) :
          a < b /\ regions_v3[a].height = regions_v3[b].height

CurrentShelf == {a \in 1..i : regions_v3[a].x = position.x}

\* C10: throughout the loop of solve_v3, width is the largest width of the
\* regions on the current shelf and position.y the sum of their heights; when
\* the loop has finished, position.x + width is get_advice of the placement.
C10_CursorTracksShelf ==
    V3Sorted =>
      /\ width = MaxWidth(regions_v3, CurrentShelf)
      /\ position.y = SumHeights(regions_v3, CurrentShelf)
      /\ i = Len(regions_v3) => position.x + width = get_advice(regions_v3)

C10_Witness ==
    /\ pc = "solve_v3_loop"
    /\ i = Len(regions_v3)
    /\ i = 3
    /\ position.x > 0
    /\ Cardinality(CurrentShelf) = 2
    /\ \E a \in CurrentShelf : regions_v3[a].width < width

\* C8 (as claimed): with zero regions the placement is empty, the occupied
\* width and the area are 0, and the utilization is 0, no error raised.
C8_EmptyUsageIsZero ==
    Len(regions) = 0 =>
      /\ pc # "raised"
      /\ pc \in {"solve_v3", "solve_v3_loop", "usage_v3", "done"} =>
            /\ regions_v1 = <<>>
            /\ usage_v1.exc = "none"
            /\ usage_v1.advice = 0
            /\ usage_v1.area = 0
            /\ usage_v1.num = 0
      /\ pc = "done" =>
            /\ regions_v3 = <<>>
            /\ usage_v3.exc = "none"
            /\ usage_v3.advice = 0
            /\ usage_v3.area = 0
            /\ usage_v3.num = 0

(***************************************************************************)
(* Properties of the validator (SpecValid).                                *)
(***************************************************************************)
Findings == {printed[a] : a \in 1..Len(printed)}

C5_OverlapIsIntersection ==
    (pc = "checked" /\ over_height(2^k, regions) = {}) =>
      /\ (~valid) = (\E a, b \in 1..Len(regions) :
                        a # b /\ Intersects(regions[a], regions[b]))
      /\ \A a, b \in 1..Len(regions) :
            overlap(regions[a], regions[b]) = overlap(regions[b], regions[a])

(***************************************************************************)
(* Properties of the catalog (SpecCatalog).                                *)
(***************************************************************************)
DefinedRatio(pair) == ~rows_per_gas[pair_name(pair)].none

\* C9 (as claimed): get_regions omits a pair exactly when its name's ratio is
\* undefined (None; 0 is defined); the others give one region each, in
\* configuration order, of height int(gas * ratio) raised to the name's
\* floor and of width the sum of the advice columns of circuit and table.
C9_SkipsOnlyUndefined ==
    pc = "got_regions" =>
      LET kept == SelectSeq(circuits_tables, DefinedRatio)
      IN /\ Len(regions) = Len(kept)
         /\ \A a \in 1..Len(kept) :
               a <= Len(regions) =>
                 /\ regions[a].width = pair_width(kept[a])
                 /\ regions[a].height =
                       floor_rows(int_rows(gas, rows_per_gas[pair_name(kept[a])]),
                                  pair_name(kept[a]))

====
